---------------------------- MODULE Spec2Model ----------------------------
(***************************************************************************)
(* bgp_attribute_survey: the memory-budgeted prefetch pipeline             *)
(* (src/src/prefetch.rs), the fault-tolerant record iterator               *)
(* (src/src/iter.rs) and the attribute counts reduced over the fetched     *)
(* files (src/src/main.rs).                                                *)
(*                                                                         *)
(* Sizes are counted in MiB (2^20 bytes): the three size constants of the  *)
(* program are whole numbers of MiB, and the byte values (2^35) do not fit *)
(* the model checker's integers.  The counter is an isize of 64 bits and   *)
(* every amount added to it is a buffer capacity or twice a size of at     *)
(* most 2^30 bytes, so no operation on it wraps.                           *)
(***************************************************************************)
EXTENDS Integers, Sequences, FiniteSets, TLC

(***************************************************************************)
(* Program constants, in MiB.                                              *)
(***************************************************************************)
\* main.rs:27  const MAX_PREFETCH_BUFFER_SIZE: usize = 1 << 30
MAX_PREFETCH_BUFFER_SIZE == 1024
\* main.rs:28  const PREFETCH_BUFFER_SPACE: usize = 32 << 30
PREFETCH_BUFFER_SPACE == 32768
\* prefetch.rs:105  item.rough_size.min(128 << 20)
PESSIMISTIC_CAPACITY == 128

(***************************************************************************)
(* Bounds of the model.                                                    *)
(***************************************************************************)
\* the largest `threads` argument of prefetch_iter, the number of fetch
\* workers, that is tried
Threads == 2
\* the number of source descriptors handed to prefetch_iter
NumSources == 3
\* the largest capacity of the output channel that is tried
MaxHeadroom == 1
\* the number of consumer threads draining the output (rayon's pool)
MaxConsumers == 2

\* The workers there can be; prefetch_iter spawns the first `threads`.
Workers == 1..Threads
SourceIds == 1..NumSources

\* prefetch_iter's `buffer_limit` values tried with n threads: zero,
\* exactly n (as in main.rs:63, where both are 32), and more than n.
BufferLimits(n) == {0, n, n + MaxHeadroom}

\* BrokerItem.rough_size values tried: negative (unknown), zero, small,
\* exactly the single-buffer ceiling, and one above it.
RoughSizes ==
    {-1, 0, 1, MAX_PREFETCH_BUFFER_SIZE, MAX_PREFETCH_BUFFER_SIZE + 1}

Min(a, b) == IF a <= b THEN a ELSE b

\* usize::saturating_sub
SaturatingSub(a, b) == IF a >= b THEN a - b ELSE 0

VARIABLES
    \* ---- prefetch.rs ----
    threads,          \* prefetch_iter's threads argument
    buffer_limit,     \* prefetch_iter's buffer_limit argument
    catalog,          \* the files the sources may name: size and content
    recv_items,       \* the unbounded input channel: queued source ids
    items_open,       \* TRUE while send_items (prefetch_iter's local) lives
    recv_result,      \* the bounded output channel: queued PrefetchResults
    ESTIMATED_SPACE,  \* the global AtomicIsize
    pc,               \* worker -> position in worker_thread
    item,             \* worker -> the BrokerItem it holds
    requested_size,   \* worker -> the amount its claim was granted (0: none)
    reader,           \* worker -> the PrefetchResult it is about to send
    held,             \* PrefetchResults owned by consumers, not yet dropped
    logged,           \* source ids with a "Failed to fetch" line printed
    popped,           \* source id -> times it was popped off recv_items
    delivered,        \* source id -> PrefetchResults of it consumers received
    \* ---- main.rs ----
    merged,           \* the AttributeCounts reduced so far
    expected,         \* attribute -> occurrences in the records the fetched
                      \* files hold ahead of their first fatal fault
    \* ---- iter.rs ----
    probing,          \* the decoder opens every call with a zero-length read
    stream,           \* the underlying reader's content
    cursor,           \* the underlying reader's position
    is_finished,      \* MsgIter.is_finished
    last,             \* what the latest call to next() did
    out,              \* the items next() has yielded so far
    end_seen,         \* a call has observed a fatal error or a clean end
    \* ---- pure functions ----
    input,            \* the arguments a function is applied to
    output            \* what it returned (<<>> before the call)

prefetchVars ==
    <<threads, buffer_limit, catalog, recv_items, items_open, recv_result,
      ESTIMATED_SPACE, pc, item, requested_size, reader, held, logged,
      popped, delivered, merged, expected>>
iterVars == <<probing, stream, cursor, is_finished, last, out, end_seen>>
pureVars == <<input, output>>
vars == <<prefetchVars, iterVars, pureVars>>

(***************************************************************************)
(* iter.rs                                                                 *)
(*                                                                         *)
(* The underlying reader is a finite byte stream seen at the granularity   *)
(* the decoder reads it: complete length-delimited records, then possibly  *)
(* the first bytes of one more record, then the end, where every read      *)
(* returns Ok(0) or fails with an io::Error of some kind.                  *)
(***************************************************************************)
\* the largest number of complete records in a stream
MaxRecords == 3
\* `out` keeps at most this many items (one more than any finite sequence
\* of the streams tried can hold)
MaxOut == MaxRecords + 2

\* ParserError variants the decoder raises on a record it has consumed.
RecordErrors ==
    {"ParseError", "TruncatedMsg", "Unsupported", "FilterError",
     "IoNotEnoughBytes"}
\* A complete record: valid, or consumed and rejected with one of the above.
RecordKinds == {"ok"} \cup RecordErrors
\* The bytes after the last complete record.
RestKinds == {"none", "part_header", "header", "header_part_body"}
\* io::ErrorKind values a failing read carries.
IoKinds == {"UnexpectedEof", "InvalidData"}
\* What a read returns once the bytes are exhausted: Ok(0), or Err(kind).
EndKinds == {"eof"} \cup IoKinds

SeqsUpTo(S, n) == UNION {[1..k -> S] : k \in 0..n}

Streams ==
    [records : SeqsUpTo(RecordKinds, MaxRecords),
     rest    : RestKinds,
     at_end  : EndKinds]

NoStream == [records |-> <<>>, rest |-> "none", at_end |-> "eof"]

\* Item of the iterator: None, Some(Ok(record)), Some(Err(error)).
NoneItem == [tag |-> "None", rec |-> 0, variant |-> "", kind |-> ""]
OkItem(c) == [tag |-> "Ok", rec |-> c, variant |-> "", kind |-> ""]
ErrItem(e) == [tag |-> "Err", rec |-> 0, variant |-> e.variant, kind |-> e.kind]

ParserError(v, k) == [variant |-> v, kind |-> k]

\* The result of a read at the end of the bytes.
EndRead(s) == IF s.at_end = "eof" THEN "zero" ELSE "err"

\* The io::ErrorKind the decoder sees when a read_exact runs into the end:
\* read_exact turns Ok(0) into UnexpectedEof and passes an Err through.
EndIoKind(s) == IF s.at_end = "eof" THEN "UnexpectedEof" ELSE s.at_end

\* The ParserError variants in which parse_mrt_record reports a failed read
\* of io::ErrorKind k.
DecoderIoErrors(k) ==
    {ParserError("IoError", k), ParserError("EofError", k)}
        \cup (IF k = "UnexpectedEof"
              THEN {ParserError("EofExpected", "")} ELSE {})

\* A decoder that probes the reader with a zero-length read before its
\* first real read: read(&mut []) returns Ok(0) on every reader.
ProbeRead == IF probing THEN <<"zero">> ELSE <<>>

\* parse_mrt_record(&mut eof_checker) with the reader at cursor c: the
\* low-level reads it issues ("data": Ok(n > 0), "zero": Ok(0), "err":
\* Err(_)), its result, and the reader's cursor afterwards.
parse_mrt_record(s, c) ==
    IF c <= Len(s.records)
    THEN {[reads  |-> ProbeRead \o <<"data", "data">>,
           ok     |-> s.records[c] = "ok",
           error  |-> ParserError(s.records[c], ""),
           cursor |-> c + 1]}
    ELSE LET reads ==
                 IF c = Len(s.records) + 1
                 THEN CASE s.rest = "none" -> <<EndRead(s)>>
                        [] s.rest = "part_header" -> <<"data", EndRead(s)>>
                        [] s.rest = "header" -> <<"data", EndRead(s)>>
                        [] OTHER -> <<"data", "data", EndRead(s)>>
                 ELSE <<EndRead(s)>>
         IN  {[reads  |-> ProbeRead \o reads,
               ok     |-> FALSE,
               error  |-> e,
               cursor |-> Len(s.records) + 2] :
                 e \in DecoderIoErrors(EndIoKind(s))}

\* EofChecker::read that lets any read returning Ok(0) set the flag.
EofChecker_read_any_zero(probe, res) ==
    [is_start         |-> FALSE,
     started_with_eof |-> res = "zero" \/ probe.started_with_eof]

\* EofChecker::read (iter.rs:74-81): one read through the probe.
EofChecker_read(probe, res) ==
    [is_start         |-> FALSE,
     started_with_eof |-> IF probe.is_start THEN res = "zero"
                          ELSE probe.started_with_eof]

RECURSIVE EofChecker_reads(_, _)
\* The probe after a sequence of reads.
EofChecker_reads(probe, reads) ==
    IF reads = <<>> THEN probe
    ELSE EofChecker_reads(EofChecker_read(probe, Head(reads)), Tail(reads))

\* is_probably_fatal_error with IoError(_) => false.
is_probably_fatal_error_io_not_fatal(err) ==
    err.variant \in {"IoNotEnoughBytes", "OneIoError", "EofExpected"}
        \/ (err.variant = "EofError" /\ err.kind = "UnexpectedEof")

\* is_probably_fatal_error with every error fatal.
is_probably_fatal_error_always(err) == TRUE

\* is_probably_fatal_error (iter.rs:52-64).
is_probably_fatal_error(err) ==
    CASE err.variant = "IoError" -> err.kind = "UnexpectedEof"
      [] err.variant = "IoNotEnoughBytes" -> TRUE
      [] err.variant = "EofError" -> err.kind = "UnexpectedEof"
      [] err.variant = "OneIoError" -> TRUE
      [] err.variant = "EofExpected" -> TRUE
      [] err.variant = "ParseError" -> FALSE
      [] err.variant = "TruncatedMsg" -> FALSE
      [] err.variant = "Unsupported" -> FALSE
      [] err.variant = "FilterError" -> FALSE

\* MsgIter::next without the started_with_eof arm.
MsgIter_next_no_eof_arm(finished, d) ==
    IF finished
    THEN [item |-> NoneItem, is_finished |-> TRUE, reads |-> <<>>,
          started_with_eof |-> FALSE]
    ELSE LET probe == EofChecker_reads(
                 [is_start |-> TRUE, started_with_eof |-> FALSE], d.reads)
             fatal == ~d.ok /\ is_probably_fatal_error(d.error)
         IN  [item |-> IF d.ok THEN OkItem(d.cursor - 1) ELSE ErrItem(d.error),
              is_finished |-> fatal,
              reads |-> d.reads,
              started_with_eof |-> probe.started_with_eof]

\* MsgIter::next (iter.rs:27-48), given its is_finished flag and what the
\* decoder would do (d) if called: the item returned, the flag afterwards,
\* the reads issued on the underlying stream, and the probe's verdict.
MsgIter_next(finished, d) ==
    IF finished
    THEN [item |-> NoneItem, is_finished |-> TRUE, reads |-> <<>>,
          started_with_eof |-> FALSE]
    ELSE LET probe == EofChecker_reads(
                 [is_start |-> TRUE, started_with_eof |-> FALSE], d.reads)
             fatal == /\ ~d.ok
                      /\ ~probe.started_with_eof
                      /\ is_probably_fatal_error(d.error)
         IN  [item |-> IF d.ok THEN OkItem(d.cursor - 1)
                       ELSE IF probe.started_with_eof THEN NoneItem
                       ELSE ErrItem(d.error),
              is_finished |-> fatal,
              reads |-> d.reads,
              started_with_eof |-> probe.started_with_eof]

\* `last` before any call.
NoCall ==
    [item |-> [tag |-> "NoCall", rec |-> 0, variant |-> "", kind |-> ""],
     reads |-> <<>>, started_with_eof |-> FALSE, after_end |-> FALSE,
     tick |-> 0]

\* MsgIter::new (iter.rs:13-18).
MsgIter_new(s) ==
    /\ stream = s
    /\ cursor = 1
    /\ is_finished = FALSE
    /\ last = NoCall
    /\ out = <<>>
    /\ end_seen = FALSE

\* One call of MsgIter::next by the iterator's user.
NextCall ==
    \E d \in parse_mrt_record(stream, cursor) :
       LET r == MsgIter_next(is_finished, d)
       IN  /\ is_finished' = r.is_finished
           /\ cursor' = IF r.reads = <<>> THEN cursor ELSE d.cursor
           /\ last' = [item |-> r.item, reads |-> r.reads,
                       started_with_eof |-> r.started_with_eof,
                       after_end |-> end_seen,
                       tick |-> 1 - last.tick]
           /\ out' = IF r.item.tag # "None" /\ Len(out) < MaxOut
                     THEN Append(out, r.item) ELSE out
           /\ end_seen' =
                 \/ end_seen
                 \/ r.item.tag = "Err" /\ is_probably_fatal_error(d.error)
                 \/ r.reads # <<>> /\ r.started_with_eof /\ ~d.ok
           /\ UNCHANGED <<stream, probing>>

(***************************************************************************)
(* main.rs                                                                 *)
(*                                                                         *)
(* AttributeCounts holds two hash maps: `map` from a sorted list of        *)
(* attribute types to a count, and `totals` from an attribute type to a    *)
(* count.  A hash map is a function on the set of its keys.  The counts    *)
(* are u64 and grow by one per attribute list read, so they do not wrap.   *)
(***************************************************************************)
\* the largest count held by an accumulator handed to reduce
MaxCount == 2

\* The attribute types tried, out of the 31 of AttributeCounts::default.
AttrTypes == {"ORIGIN", "AS_PATH"}

\* u8::from(AttrType) orders the types: ORIGIN before AS_PATH.
AttrBefore(a, b) == a = b \/ (a = "ORIGIN" /\ b = "AS_PATH")

\* AttributeCounts::default (main.rs:133-175).
AttributeCounts_default == [map |-> <<>>, totals |-> [a \in AttrTypes |-> 0]]

\* *m.entry(key).or_default() = value
entry_add_overwrite(m, key, value) ==
    [k \in DOMAIN m \cup {key} |-> IF k = key THEN value ELSE m[k]]

\* *m.entry(key).or_default() += value
entry_add(m, key, value) ==
    [k \in DOMAIN m \cup {key} |->
        IF k = key
        THEN (IF key \in DOMAIN m THEN m[key] ELSE 0) + value
        ELSE m[k]]

RECURSIVE insert_by_key(_, _)
insert_by_key(x, sorted) ==
    IF sorted = <<>> THEN <<x>>
    ELSE IF AttrBefore(x, Head(sorted)) THEN <<x>> \o sorted
    ELSE <<Head(sorted)>> \o insert_by_key(x, Tail(sorted))

RECURSIVE sort_unstable_by_key(_)
\* observed_types.sort_unstable_by_key(|x| u8::from(*x)) (main.rs:199)
sort_unstable_by_key(types) ==
    IF types = <<>> THEN <<>>
    ELSE insert_by_key(Head(types), sort_unstable_by_key(Tail(types)))

RECURSIVE add_totals(_, _)
\* for x in &observed_types { *self.totals.entry(*x).or_default() += 1 }
add_totals(totals, types) ==
    IF types = <<>> THEN totals
    ELSE add_totals(entry_add(totals, Head(types), 1), Tail(types))

\* AttributeCounts::add_to_count (main.rs:196-207).
add_to_count(self, attributes) ==
    LET observed_types == sort_unstable_by_key(attributes)
    IN  [map    |-> entry_add(self.map, observed_types, 1),
         totals |-> add_totals(self.totals, observed_types)]

RECURSIVE count_record(_, _)
\* AttributeCounts::count_record (main.rs:179-194), on a message given as
\* the attribute lists it carries: one for an update or a table dump entry,
\* one per entry for a RIB record, none for the other messages.
count_record(self, message) ==
    IF message = <<>> THEN self
    ELSE count_record(add_to_count(self, Head(message)), Tail(message))

RECURSIVE merge_entries(_, _, _)
\* for (key, value) in other { *m.entry(key).or_default() += value }
merge_entries(m, other, keys) ==
    IF keys = {} THEN m
    ELSE LET key == CHOOSE k \in keys : TRUE
         IN  merge_entries(entry_add(m, key, other[key]), other,
                           keys \ {key})

RECURSIVE merge_entries_overwrite(_, _, _)
\* for (key, value) in other { *m.entry(key).or_default() = value }
merge_entries_overwrite(m, other, keys) ==
    IF keys = {} THEN m
    ELSE LET key == CHOOSE k \in keys : TRUE
         IN  merge_entries_overwrite(
                 entry_add_overwrite(m, key, other[key]), other,
                 keys \ {key})

\* reduce with `=` in place of `+=`.
reduce_overwrite(self, other) ==
    [map    |-> merge_entries_overwrite(self.map, other.map,
                                        DOMAIN other.map),
     totals |-> merge_entries_overwrite(self.totals, other.totals,
                                        DOMAIN other.totals)]

\* AttributeCounts::reduce (main.rs:210-221).
reduce(self, other) ==
    [map    |-> merge_entries(self.map, other.map, DOMAIN other.map),
     totals |-> merge_entries(self.totals, other.totals,
                              DOMAIN other.totals)]

\* The message of the c-th record of a file: an update whose attributes
\* arrive out of order, a RIB record of two entries, a table dump entry.
MessageOf(c) ==
    CASE c % 3 = 1 -> << <<"AS_PATH", "ORIGIN">> >>
      [] c % 3 = 2 -> << <<"ORIGIN">>, <<"ORIGIN", "AS_PATH">> >>
      [] OTHER -> << <<"ORIGIN">> >>

RECURSIVE MsgIter_collect_until_error(_, _, _, _)
\* The loop leaving at the first Err item.
MsgIter_collect_until_error(s, c, finished, calls) ==
    IF calls = 0 THEN {[ended |-> FALSE, oks |-> <<>>]}
    ELSE UNION {
        LET r == MsgIter_next(finished, d)
        IN  IF r.item.tag # "Ok" THEN {[ended |-> TRUE, oks |-> <<>>]}
            ELSE {[ended |-> x.ended, oks |-> <<r.item.rec>> \o x.oks] :
                     x \in MsgIter_collect_until_error(
                               s, d.cursor, r.is_finished, calls - 1)} :
        d \in parse_mrt_record(s, c)}

RECURSIVE MsgIter_collect(_, _, _, _)
\* for record in MsgIter::new(item.reader) (main.rs:104): the runs of the
\* loop over content s from cursor c, as the indices of the records it got
\* as Ok, and whether the iterator returned None within `calls` calls.
MsgIter_collect(s, c, finished, calls) ==
    IF calls = 0 THEN {[ended |-> FALSE, oks |-> <<>>]}
    ELSE UNION {
        LET r == MsgIter_next(finished, d)
        IN  IF r.item.tag = "None" THEN {[ended |-> TRUE, oks |-> <<>>]}
            ELSE {[ended |-> x.ended,
                   oks   |-> IF r.item.tag = "Ok"
                             THEN <<r.item.rec>> \o x.oks ELSE x.oks] :
                     x \in MsgIter_collect(s, d.cursor, r.is_finished,
                                           calls - 1)} :
        d \in parse_mrt_record(s, c)}

RECURSIVE count_records(_, _)
count_records(self, oks) ==
    IF oks = <<>> THEN self
    ELSE count_records(count_record(self, MessageOf(Head(oks))), Tail(oks))

\* map_broker_item_to_counts (main.rs:100-119) on a reader of the given
\* content: the accumulators it can return.  It returns only when the
\* iterator has returned None.
map_broker_item_to_counts(content) ==
    {count_records(AttributeCounts_default, x.oks) :
        x \in {y \in MsgIter_collect(content, 1, FALSE,
                                     Len(content.records) + 3) : y.ended}}

\* The contents tried end to end: two valid records; one valid record and
\* a truncated one; a rejected record between two valid ones; a record the
\* decoder cannot read to its end between two valid ones.
Clean2 == [records |-> <<"ok", "ok">>, rest |-> "none", at_end |-> "eof"]
FatalAfter1 == [records |-> <<"ok">>, rest |-> "header", at_end |-> "eof"]
OkBadOk ==
    [records |-> <<"ok", "ParseError", "ok">>, rest |-> "none",
     at_end |-> "eof"]
FatalMid ==
    [records |-> <<"ok", "IoNotEnoughBytes", "ok">>, rest |-> "none",
     at_end |-> "eof"]

\* The records of a file that lie ahead of its first fatal fault.
DecodableRecords(s) ==
    {i \in 1..Len(s.records) :
        /\ s.records[i] = "ok"
        /\ \A j \in 1..(i - 1) : s.records[j] # "IoNotEnoughBytes"}

RECURSIVE Occurrences(_, _)
\* how often attribute a occurs in a sequence of attribute lists
Occurrences(a, lists) ==
    IF lists = <<>> THEN 0
    ELSE Cardinality({i \in DOMAIN Head(lists) : Head(lists)[i] = a})
            + Occurrences(a, Tail(lists))

RECURSIVE SumOver(_, _)
SumOver(a, recs) ==
    IF recs = {} THEN 0
    ELSE LET i == CHOOSE i \in recs : TRUE
         IN  Occurrences(a, MessageOf(i)) + SumOver(a, recs \ {i})

\* attribute -> occurrences in the decodable records of content s
ExpectedTotals(s) == [a \in AttrTypes |-> SumOver(a, DecodableRecords(s))]

(***************************************************************************)
(* prefetch.rs                                                             *)
(*                                                                         *)
(* The input queue holds the descriptors in the order of the `sources`     *)
(* vector.  A worker reads a descriptor's fields when it has popped it     *)
(* (prefetch.rs:101), and that is where its rough_size, and the content of *)
(* the file behind its url, are drawn.                                     *)
(***************************************************************************)
NoItem == [id |-> 0, rough_size |-> 0, content |-> NoStream]

\* BrokerItem: the fields worker_thread reads, rough_size and url, the url
\* standing for the descriptor's place in `sources` and for the content of
\* the file it names.
BrokerItem(id, file) ==
    [id |-> id, rough_size |-> file.rough_size, content |-> file.content]

\* The files tried by the budget's properties: every size, no records.
EmptyFiles == {[rough_size |-> n, content |-> NoStream] : n \in RoughSizes}

\* The files tried end to end: streamed (size unknown) and buffered.
RecordFiles ==
    {[rough_size |-> 0, content |-> Clean2],
     [rough_size |-> 1, content |-> FatalAfter1],
     [rough_size |-> 1, content |-> OkBadOk],
     [rough_size |-> 0, content |-> FatalMid]}

NoReader ==
    [src |-> 0, buffered |-> FALSE, claimed_space |-> 0,
     content |-> NoStream]

\* A BufferGuard behind reader_for_buffer (prefetch.rs:120-126).
BufferGuard(id, capacity, content) ==
    [src |-> id, buffered |-> TRUE, claimed_space |-> capacity,
     content |-> content]

\* The streaming reader of oneio::get_reader (prefetch.rs:130-131).
StreamingReader(id, content) ==
    [src |-> id, buffered |-> FALSE, claimed_space |-> 0,
     content |-> content]

\* str::ends_with on a string given as the sequence of its characters
ends_with(file, suffix) ==
    /\ Len(file) >= Len(suffix)
    /\ SubSeq(file, Len(file) - Len(suffix) + 1, Len(file)) = suffix

\* reader_for_buffer that knows the long suffix of each format only.
reader_for_buffer_one_suffix(file, buffer) ==
    IF ends_with(file, <<".", "g", "z", "i", "p">>)
    THEN [decoder |-> "GzDecoder", inner |-> buffer]
    ELSE IF ends_with(file, <<".", "b", "z", "2">>)
    THEN [decoder |-> "BzDecoder", inner |-> buffer]
    ELSE IF ends_with(file, <<".", "l", "z", "4">>)
    THEN [decoder |-> "Lz4Decoder", inner |-> buffer]
    ELSE [decoder |-> "none", inner |-> buffer]

\* reader_for_buffer (prefetch.rs:148-161): the reader it boxes, as the
\* decoder put around the buffer.  The constructors do not fail on any
\* content: GzDecoder::new keeps a bad header for the first read,
\* BzDecoder::new reads nothing, and lz4::Decoder::new, the one that is
\* unwrapped, fails only if its context cannot be allocated.
reader_for_buffer(file, buffer) ==
    IF \/ ends_with(file, <<".", "g", "z">>)
       \/ ends_with(file, <<".", "g", "z", "i", "p">>)
    THEN [decoder |-> "GzDecoder", inner |-> buffer]
    ELSE IF \/ ends_with(file, <<".", "b", "z", "2">>)
            \/ ends_with(file, <<".", "b", "z">>)
    THEN [decoder |-> "BzDecoder", inner |-> buffer]
    ELSE IF \/ ends_with(file, <<".", "l", "z", "4">>)
            \/ ends_with(file, <<".", "l", "z">>)
    THEN [decoder |-> "Lz4Decoder", inner |-> buffer]
    ELSE [decoder |-> "none", inner |-> buffer]

\* The capacity of the bounded output channel (prefetch.rs:35-36).
ChannelCapacity == SaturatingSub(buffer_limit, threads)

\* buffer.capacity() after io::copy: at least the capacity the Vec was
\* created with, otherwise whatever the download needed.  Tried: the initial
\* capacity, exactly the claim, and a download that leaves the budget room
\* for one more small claim.
Capacities(rough_size, claimed) ==
    {Min(rough_size, PESSIMISTIC_CAPACITY), claimed,
     PREFETCH_BUFFER_SPACE - 2}

\* attempt_to_claim_space with its ceiling test dropped.
attempt_to_claim_space_no_ceiling(estimated_size, x) ==
    IF estimated_size <= 0
    THEN [granted |-> FALSE, amount |-> 0, space |-> x]
    ELSE LET estimated_buffer_capacity == 2 * estimated_size
         IN  IF x >= estimated_buffer_capacity
             THEN [granted |-> TRUE, amount |-> estimated_buffer_capacity,
                   space |-> x - estimated_buffer_capacity]
             ELSE [granted |-> FALSE, amount |-> 0, space |-> x]

\* attempt_to_claim_space with fetch_sub in place of fetch_update: the
\* subtraction is made whatever the counter holds.
attempt_to_claim_space_unconditional(estimated_size, x) ==
    IF estimated_size <= 0 \/ estimated_size > MAX_PREFETCH_BUFFER_SIZE
    THEN [granted |-> FALSE, amount |-> 0, space |-> x]
    ELSE [granted |-> TRUE, amount |-> 2 * estimated_size,
          space |-> x - 2 * estimated_size]

\* attempt_to_claim_space (prefetch.rs:49-62), on counter value x: whether
\* the claim is granted, the amount returned, and the counter afterwards.
\* fetch_update is one atomic read-modify-write.
attempt_to_claim_space(estimated_size, x) ==
    IF estimated_size <= 0 \/ estimated_size > MAX_PREFETCH_BUFFER_SIZE
    THEN [granted |-> FALSE, amount |-> 0, space |-> x]
    ELSE LET estimated_buffer_capacity == 2 * estimated_size
         IN  IF x >= estimated_buffer_capacity
             THEN [granted |-> TRUE, amount |-> estimated_buffer_capacity,
                   space |-> x - estimated_buffer_capacity]
             ELSE [granted |-> FALSE, amount |-> 0, space |-> x]

\* prefetch_iter(sources, threads, buffer_limit) up to the spawning of the
\* workers (prefetch.rs:24-43), the sources naming files among `files`.  A
\* worker beyond `threads` is never spawned, which leaves it where a worker
\* that has returned is.
PrefetchInit(files) ==
    /\ threads \in Workers
    /\ buffer_limit \in BufferLimits(threads)
    /\ catalog = files
    /\ recv_items = [i \in SourceIds |-> i]
    /\ items_open = TRUE
    /\ recv_result = <<>>
    /\ ESTIMATED_SPACE = PREFETCH_BUFFER_SPACE
    /\ pc = [w \in Workers |-> IF w <= threads THEN "recv" ELSE "done"]
    /\ item = [w \in Workers |-> NoItem]
    /\ requested_size = [w \in Workers |-> 0]
    /\ reader = [w \in Workers |-> NoReader]
    /\ held = {}
    /\ logged = {}
    /\ popped = [i \in SourceIds |-> 0]
    /\ delivered = [i \in SourceIds |-> 0]
    /\ merged = AttributeCounts_default
    /\ expected = [a \in AttrTypes |-> 0]

\* prefetch_iter with a sender that outlives the call.
PrefetchIterReturn_keeps_sender ==
    /\ items_open
    /\ items_open' = TRUE
    /\ UNCHANGED <<threads, buffer_limit, catalog, recv_items, recv_result,
                   ESTIMATED_SPACE, pc, item, requested_size, reader, held,
                   logged, popped, delivered, merged, expected>>

\* prefetch_iter returns: its local send_items is dropped (prefetch.rs:44-45).
PrefetchIterReturn ==
    /\ items_open
    /\ items_open' = FALSE
    /\ UNCHANGED <<threads, buffer_limit, catalog, recv_items, recv_result,
                   ESTIMATED_SPACE, pc, item, requested_size, reader, held,
                   logged, popped, delivered, merged, expected>>

\* recv.recv() that hands out the head of the queue without removing it.
WorkerRecv_no_pop(w) ==
    /\ pc[w] = "recv"
    /\ recv_items # <<>>
    /\ \E file \in catalog :
          item' = [item EXCEPT ![w] = BrokerItem(Head(recv_items), file)]
    /\ popped' = [popped EXCEPT ![Head(recv_items)] = Min(@ + 1, 2)]
    /\ pc' = [pc EXCEPT ![w] = "claim"]
    /\ UNCHANGED <<threads, buffer_limit, catalog, recv_items, items_open,
                   recv_result, ESTIMATED_SPACE, requested_size, reader,
                   held, logged, delivered, merged, expected>>

\* while let Ok(item) = recv.recv(): a descriptor is popped (prefetch.rs:100).
WorkerRecv(w) ==
    /\ pc[w] = "recv"
    /\ recv_items # <<>>
    /\ \E file \in catalog :
          item' = [item EXCEPT ![w] = BrokerItem(Head(recv_items), file)]
    /\ recv_items' = Tail(recv_items)
    /\ popped' = [popped EXCEPT ![Head(recv_items)] = Min(@ + 1, 2)]
    /\ pc' = [pc EXCEPT ![w] = "claim"]
    /\ UNCHANGED <<threads, buffer_limit, catalog, items_open, recv_result,
                   ESTIMATED_SPACE, requested_size, reader, held, logged,
                   delivered, merged, expected>>

\* recv.recv() fails: the queue is empty and disconnected; the worker returns
\* and its Sender clone is dropped (prefetch.rs:100, 146).
WorkerExit(w) ==
    /\ pc[w] = "recv"
    /\ recv_items = <<>>
    /\ ~items_open
    /\ pc' = [pc EXCEPT ![w] = "done"]
    /\ UNCHANGED <<threads, buffer_limit, catalog, recv_items, items_open,
                   recv_result, ESTIMATED_SPACE, item, requested_size,
                   reader, held, logged, popped, delivered, merged, expected>>

\* A worker that holds its descriptor back until the budget covers it.
WorkerClaim_waits(w) ==
    /\ pc[w] = "claim"
    /\ LET r == attempt_to_claim_space(item[w].rough_size, ESTIMATED_SPACE)
       IN  /\ r.granted \/ item[w].rough_size <= 0
                        \/ item[w].rough_size > MAX_PREFETCH_BUFFER_SIZE
           /\ ESTIMATED_SPACE' = r.space
           /\ requested_size' = [requested_size EXCEPT ![w] = r.amount]
           /\ pc' = [pc EXCEPT ![w] = IF r.granted THEN "fetch" ELSE "stream"]
    /\ UNCHANGED <<threads, buffer_limit, catalog, recv_items, items_open,
                   recv_result, item, reader, held, logged, popped,
                   delivered, merged, expected>>

\* match attempt_to_claim_space(item.rough_size) (prefetch.rs:101-102, 128).
WorkerClaim(w) ==
    /\ pc[w] = "claim"
    /\ LET r == attempt_to_claim_space(item[w].rough_size, ESTIMATED_SPACE)
       IN  /\ ESTIMATED_SPACE' = r.space
           /\ requested_size' = [requested_size EXCEPT ![w] = r.amount]
           /\ pc' = [pc EXCEPT ![w] = IF r.granted THEN "fetch" ELSE "stream"]
    /\ UNCHANGED <<threads, buffer_limit, catalog, recv_items, items_open,
                   recv_result, item, reader, held, logged, popped,
                   delivered, merged, expected>>

\* The budgeted fetch fails: log and continue (prefetch.rs:113-116).  The
\* Vec is dropped; nothing is added to ESTIMATED_SPACE.
WorkerFetchFail(w) ==
    /\ pc[w] = "fetch"
    /\ logged' = logged \cup {item[w].id}
    /\ pc' = [pc EXCEPT ![w] = "recv"]
    /\ item' = [item EXCEPT ![w] = NoItem]
    /\ requested_size' = [requested_size EXCEPT ![w] = 0]
    /\ UNCHANGED <<threads, buffer_limit, catalog, recv_items, items_open,
                   recv_result, ESTIMATED_SPACE, reader, held, popped,
                   delivered, merged, expected>>

\* The budgeted fetch succeeds with a buffer of some capacity: the counter is
\* adjusted by requested_size - capacity and the buffer is wrapped
\* (prefetch.rs:105-126).
WorkerFetchOk(w) ==
    /\ pc[w] = "fetch"
    /\ \E capacity \in Capacities(item[w].rough_size, requested_size[w]) :
          /\ ESTIMATED_SPACE' =
                ESTIMATED_SPACE + (requested_size[w] - capacity)
          /\ reader' = [reader EXCEPT
                ![w] = BufferGuard(item[w].id, capacity, item[w].content)]
    /\ expected' = [a \in AttrTypes |->
                      expected[a] + ExpectedTotals(item[w].content)[a]]
    /\ pc' = [pc EXCEPT ![w] = "send"]
    /\ requested_size' = [requested_size EXCEPT ![w] = 0]
    /\ UNCHANGED <<threads, buffer_limit, catalog, recv_items, items_open,
                   recv_result, item, held, logged, popped, delivered, merged>>

\* Claim denied, oneio::get_reader succeeds (prefetch.rs:130-131).
WorkerStreamOk(w) ==
    /\ pc[w] = "stream"
    /\ reader' = [reader EXCEPT
          ![w] = StreamingReader(item[w].id, item[w].content)]
    /\ expected' = [a \in AttrTypes |->
                      expected[a] + ExpectedTotals(item[w].content)[a]]
    /\ pc' = [pc EXCEPT ![w] = "send"]
    /\ UNCHANGED <<threads, buffer_limit, catalog, recv_items, items_open,
                   recv_result, ESTIMATED_SPACE, item, requested_size, held,
                   logged, popped, delivered, merged>>

\* Claim denied, oneio::get_reader fails: log and continue
\* (prefetch.rs:132-135).
WorkerStreamFail(w) ==
    /\ pc[w] = "stream"
    /\ logged' = logged \cup {item[w].id}
    /\ pc' = [pc EXCEPT ![w] = "recv"]
    /\ item' = [item EXCEPT ![w] = NoItem]
    /\ UNCHANGED <<threads, buffer_limit, catalog, recv_items, items_open,
                   recv_result, ESTIMATED_SPACE, requested_size, reader,
                   held, popped, delivered, merged, expected>>

\* send.send(..) that queues the value whatever the channel holds.
WorkerSend_unbounded(w) ==
    /\ pc[w] = "send"
    /\ recv_result' = Append(recv_result, reader[w])
    /\ reader' = [reader EXCEPT ![w] = NoReader]
    /\ item' = [item EXCEPT ![w] = NoItem]
    /\ pc' = [pc EXCEPT ![w] = "recv"]
    /\ UNCHANGED <<threads, buffer_limit, catalog, recv_items, items_open,
                   ESTIMATED_SPACE, requested_size, held, logged, popped,
                   delivered, merged, expected>>

\* send.send(..) into a channel with room (prefetch.rs:140-144).
WorkerSend(w) ==
    /\ pc[w] = "send"
    /\ Len(recv_result) < ChannelCapacity
    /\ recv_result' = Append(recv_result, reader[w])
    /\ reader' = [reader EXCEPT ![w] = NoReader]
    /\ item' = [item EXCEPT ![w] = NoItem]
    /\ pc' = [pc EXCEPT ![w] = "recv"]
    /\ UNCHANGED <<threads, buffer_limit, catalog, recv_items, items_open,
                   ESTIMATED_SPACE, requested_size, held, logged, popped,
                   delivered, merged, expected>>

\* send.send(..) on a zero-capacity channel: the send completes only by
\* handing the value to a consumer that is receiving (prefetch.rs:36, 140).
WorkerSendRendezvous(w) ==
    /\ pc[w] = "send"
    /\ ChannelCapacity = 0
    /\ Cardinality(held) < MaxConsumers
    /\ held' = held \cup {reader[w]}
    /\ delivered' = [delivered EXCEPT ![reader[w].src] = Min(@ + 1, 2)]
    /\ reader' = [reader EXCEPT ![w] = NoReader]
    /\ item' = [item EXCEPT ![w] = NoItem]
    /\ pc' = [pc EXCEPT ![w] = "recv"]
    /\ UNCHANGED <<threads, buffer_limit, catalog, recv_items, items_open,
                   recv_result, ESTIMATED_SPACE, requested_size, logged,
                   popped, merged, expected>>

\* A consumer takes the next PrefetchResult off the channel
\* (prefetch.rs:44, main.rs:63-65).
ConsumerRecv ==
    /\ recv_result # <<>>
    /\ Cardinality(held) < MaxConsumers
    /\ held' = held \cup {Head(recv_result)}
    /\ delivered' = [delivered EXCEPT ![Head(recv_result).src] = Min(@ + 1, 2)]
    /\ recv_result' = Tail(recv_result)
    /\ UNCHANGED <<threads, buffer_limit, catalog, recv_items, items_open,
                   ESTIMATED_SPACE, pc, item, requested_size, reader, logged,
                   popped, merged, expected>>

\* A consumer that forgets the PrefetchResult without running its drop.
ConsumerDrop_no_release(r) ==
    /\ r \in held
    /\ held' = held \ {r}
    /\ \E counts \in map_broker_item_to_counts(r.content) :
          merged' \in {reduce(merged, counts), reduce(counts, merged)}
    /\ UNCHANGED <<threads, buffer_limit, catalog, recv_items, items_open,
                   recv_result, ESTIMATED_SPACE, pc, item, requested_size,
                   reader, logged, popped, delivered, expected>>

\* A consumer is through with a PrefetchResult: map_broker_item_to_counts
\* has read it to its end and returns (main.rs:100-119), the result is
\* folded into the reduction in either operand order (main.rs:66), and the
\* PrefetchResult is dropped; a BufferGuard's drop adds claimed_space back
\* (prefetch.rs:91-97).
ConsumerDrop(r) ==
    /\ r \in held
    /\ held' = held \ {r}
    /\ \E counts \in map_broker_item_to_counts(r.content) :
          merged' \in {reduce(merged, counts), reduce(counts, merged)}
    /\ ESTIMATED_SPACE' =
          IF r.buffered THEN ESTIMATED_SPACE + r.claimed_space
                        ELSE ESTIMATED_SPACE
    /\ UNCHANGED <<threads, buffer_limit, catalog, recv_items, items_open,
                   recv_result, pc, item, requested_size, reader, logged,
                   popped, delivered, expected>>

(***************************************************************************)
(* Specifications                                                          *)
(***************************************************************************)
NoCallMade == input = <<>> /\ output = <<>>

\* The pipeline over files without records, with no iterator running.
Init ==
    /\ PrefetchInit(EmptyFiles)
    /\ MsgIter_new(NoStream) /\ probing = FALSE
    /\ NoCallMade

Next ==
    \/ PrefetchIterReturn /\ UNCHANGED <<iterVars, pureVars>>
    \/ \E w \in Workers : WorkerRecv(w) /\ UNCHANGED <<iterVars, pureVars>>
    \/ \E w \in Workers : WorkerExit(w) /\ UNCHANGED <<iterVars, pureVars>>
    \/ \E w \in Workers : WorkerClaim(w) /\ UNCHANGED <<iterVars, pureVars>>
    \/ \E w \in Workers :
          WorkerFetchFail(w) /\ UNCHANGED <<iterVars, pureVars>>
    \/ \E w \in Workers : WorkerFetchOk(w) /\ UNCHANGED <<iterVars, pureVars>>
    \/ \E w \in Workers :
          WorkerStreamOk(w) /\ UNCHANGED <<iterVars, pureVars>>
    \/ \E w \in Workers :
          WorkerStreamFail(w) /\ UNCHANGED <<iterVars, pureVars>>
    \/ \E w \in Workers : WorkerSend(w) /\ UNCHANGED <<iterVars, pureVars>>
    \/ \E w \in Workers :
          WorkerSendRendezvous(w) /\ UNCHANGED <<iterVars, pureVars>>
    \/ ConsumerRecv /\ UNCHANGED <<iterVars, pureVars>>
    \/ \E r \in held : ConsumerDrop(r) /\ UNCHANGED <<iterVars, pureVars>>

Spec == Init /\ [][Next]_vars

\* The same, with a step taken whenever one can be: every fetch returns,
\* the consumers keep draining, every thread that can run does.
FairSpec == Spec /\ WF_vars(Next)

\* The pipeline over files that hold records.
EndToEndInit ==
    /\ PrefetchInit(RecordFiles)
    /\ MsgIter_new(NoStream) /\ probing = FALSE
    /\ NoCallMade

EndToEndSpec == EndToEndInit /\ [][Next]_vars

\* One MsgIter over one stream, called again and again; no pipeline.
PrefetchIdle ==
    /\ threads = Threads
    /\ buffer_limit = 0
    /\ catalog = {}
    /\ recv_items = <<>>
    /\ items_open = FALSE
    /\ recv_result = <<>>
    /\ ESTIMATED_SPACE = PREFETCH_BUFFER_SPACE
    /\ pc = [w \in Workers |-> "done"]
    /\ item = [w \in Workers |-> NoItem]
    /\ requested_size = [w \in Workers |-> 0]
    /\ reader = [w \in Workers |-> NoReader]
    /\ held = {}
    /\ logged = {}
    /\ popped = [i \in SourceIds |-> 0]
    /\ delivered = [i \in SourceIds |-> 0]
    /\ merged = AttributeCounts_default
    /\ expected = [a \in AttrTypes |-> 0]

IterInit ==
    /\ PrefetchIdle
    /\ \E s \in Streams : MsgIter_new(s)
    /\ probing = FALSE
    /\ NoCallMade

IterNext == NextCall /\ UNCHANGED <<prefetchVars, pureVars>>

IterSpec == IterInit /\ [][IterNext]_vars

\* The same, with the caller never ceasing to call next().
IterFairSpec == IterSpec /\ WF_vars(IterNext)

\* The same, over decoders with and without a zero-length opening read.
ProbeInit ==
    /\ PrefetchIdle
    /\ \E s \in Streams : MsgIter_new(s)
    /\ probing \in BOOLEAN
    /\ NoCallMade

ProbeSpec == ProbeInit /\ [][IterNext]_vars

RECURSIVE add_times(_, _, _)
\* n calls of add_to_count with the same attribute list
add_times(self, attributes, n) ==
    IF n = 0 THEN self
    ELSE add_times(add_to_count(self, attributes), attributes, n - 1)

\* The accumulators handed to reduce: what map_broker_item_to_counts can
\* return, AttributeCounts::default() after some calls of add_to_count.
Accumulators ==
    {add_times(add_times(AttributeCounts_default, <<"ORIGIN">>, i),
               <<"AS_PATH", "ORIGIN">>, j) : i, j \in 0..MaxCount}

\* AttributeCounts::reduce applied to three accumulators, in both operand
\* orders and both groupings.
ReduceInit ==
    /\ PrefetchIdle
    /\ MsgIter_new(NoStream) /\ probing = FALSE
    /\ input \in Accumulators \X Accumulators \X Accumulators
    /\ output = <<>>

ReduceCall ==
    /\ output = <<>>
    /\ LET a == input[1]
           b == input[2]
           c == input[3]
       IN  output' = <<[ab   |-> reduce(a, b),
                        ba   |-> reduce(b, a),
                        ab_c |-> reduce(reduce(a, b), c),
                        a_bc |-> reduce(a, reduce(b, c))]>>
    /\ UNCHANGED <<input, prefetchVars, iterVars>>

ReduceSpec == ReduceInit /\ [][ReduceCall]_vars

\* the largest number of segments a url is put together from
MaxSegments == 2

\* The pieces urls are put together from: a name, the six suffixes the
\* router knows, one it does not, and a suffix without its dot.
Segments ==
    {<<"a">>, <<".", "g", "z">>, <<".", "g", "z", "i", "p">>,
     <<".", "b", "z", "2">>, <<".", "b", "z">>, <<".", "l", "z", "4">>,
     <<".", "l", "z">>, <<".", "t", "x", "t">>, <<"g", "z">>}

RECURSIVE Concat(_)
\* the url made of a sequence of segments
Concat(segs) ==
    IF segs = <<>> THEN <<>> ELSE Head(segs) \o Concat(Tail(segs))

\* The budgeted branch of worker_thread from the BufferGuard on
\* (prefetch.rs:120-126, 140-144), for a url and a fetched buffer: the
\* PrefetchResult handed to send.
RouterInit ==
    /\ PrefetchIdle
    /\ MsgIter_new(NoStream) /\ probing = FALSE
    /\ \E segs \in SeqsUpTo(Segments, MaxSegments) :
       \E content \in {NoStream, Clean2, FatalMid} :
          input = <<segs, BufferGuard(1, PESSIMISTIC_CAPACITY, content)>>
    /\ output = <<>>

RouterCall ==
    /\ output = <<>>
    /\ LET url == Concat(input[1])
       IN  output' = <<[url    |-> url,
                        reader |-> reader_for_buffer(url, input[2])]>>
    /\ UNCHANGED <<input, prefetchVars, iterVars>>

RouterSpec == RouterInit /\ [][RouterCall]_vars

(***************************************************************************)
(* Properties of the space budget (prefetch.rs)                            *)
(***************************************************************************)
\* Every descriptor handled, every worker gone, every stream dropped.
Quiescent ==
    /\ recv_items = <<>>
    /\ ~items_open
    /\ \A w \in Workers : pc[w] = "done"
    /\ recv_result = <<>>
    /\ held = {}

\* C1: in every reachable state the space-budget counter is >= 0.
C1_SpaceNeverNegative == ESTIMATED_SPACE >= 0

\* C2: whenever the pipeline is quiescent the counter equals its initial
\* capacity exactly.
C2_QuiescentSpaceRestored ==
    Quiescent => ESTIMATED_SPACE = PREFETCH_BUFFER_SPACE

\* C3: when a budgeted fetch fails, the worker logs, produces no
\* PrefetchResult, and the step that handles the failure gives the claimed
\* amount back to the counter.
C3_FailedFetchReturnsClaim ==
    [][\A w \in Workers :
          (pc[w] = "fetch" /\ pc'[w] = "recv") =>
             /\ item[w].id \in logged'
             /\ reader'[w] = NoReader
             /\ recv_result' = recv_result
             /\ held' = held
             /\ ESTIMATED_SPACE' = ESTIMATED_SPACE + requested_size[w]]_vars

\* C10: a claim for an estimated_size <= 0 or above
\* MAX_PREFETCH_BUFFER_SIZE is refused (the worker goes to the streaming
\* path with nothing granted) and leaves the counter unchanged, whatever
\* the counter's value.
C10_InadmissibleSizeRejected ==
    [][\A w \in Workers :
          (/\ pc[w] = "claim"
           /\ pc'[w] # "claim"
           /\ \/ item[w].rough_size <= 0
              \/ item[w].rough_size > MAX_PREFETCH_BUFFER_SIZE) =>
             /\ pc'[w] = "stream"
             /\ requested_size'[w] = 0
             /\ ESTIMATED_SPACE' = ESTIMATED_SPACE]_vars

\* C10 witness: a worker was refused for a size above the ceiling while the
\* counter covers twice that size.
C10_Witness ==
    \E w \in Workers :
       /\ pc[w] = "stream"
       /\ item[w].rough_size > MAX_PREFETCH_BUFFER_SIZE
       /\ ESTIMATED_SPACE >= 2 * item[w].rough_size

\* C11: a claim for an admissible size is one atomic step that either takes
\* exactly twice the size off the counter and returns that amount, which it
\* does exactly when the counter it reads covers the amount, or returns
\* nothing and leaves the counter as it was; so the counter a granted claim
\* leaves behind is never below what it read minus its own amount, and a
\* second claim that the remainder does not cover is refused.
C11_ClaimAtomic ==
    [][\A w \in Workers :
          (/\ pc[w] = "claim"
           /\ pc'[w] # "claim"
           /\ item[w].rough_size > 0
           /\ item[w].rough_size <= MAX_PREFETCH_BUFFER_SIZE) =>
             IF ESTIMATED_SPACE >= 2 * item[w].rough_size
             THEN /\ pc'[w] = "fetch"
                  /\ requested_size'[w] = 2 * item[w].rough_size
                  /\ ESTIMATED_SPACE' =
                        ESTIMATED_SPACE - 2 * item[w].rough_size
             ELSE /\ pc'[w] = "stream"
                  /\ requested_size'[w] = 0
                  /\ ESTIMATED_SPACE' = ESTIMATED_SPACE]_vars

\* C11 witness: two workers have claimed for admissible sizes out of a
\* counter that covered one of them only; one holds its grant, the other
\* was refused.
C11_Witness ==
    \E w1, w2 \in Workers :
       /\ w1 # w2
       /\ pc[w1] = "fetch"
       /\ requested_size[w1] = 2 * item[w1].rough_size
       /\ pc[w2] = "stream"
       /\ item[w2].rough_size > 0
       /\ item[w2].rough_size <= MAX_PREFETCH_BUFFER_SIZE
       /\ ESTIMATED_SPACE >= 0
       /\ ESTIMATED_SPACE < 2 * item[w2].rough_size
       /\ ESTIMATED_SPACE + requested_size[w1] >= 2 * item[w2].rough_size

\* C12: every descriptor is popped at most once and, once popped, is in
\* exactly one place: with the one worker that popped it, or logged as
\* failed with no PrefetchResult made, or as one PrefetchResult carrying
\* its url that is queued or has been received by one consumer; a worker
\* that logged a failure is back at the input queue.
C12_ExactlyOnce ==
    /\ \A id \in SourceIds :
          /\ popped[id] <= 1
          /\ popped[id] = 0 <=>
                (\E i \in 1..Len(recv_items) : recv_items[i] = id)
          /\ delivered[id] <= 1
          /\ Cardinality({w \in Workers : item[w].id = id})
                + Cardinality({i \in 1..Len(recv_result) :
                                  recv_result[i].src = id})
                + (IF id \in logged THEN 1 ELSE 0)
                + delivered[id]
             = popped[id]
          /\ Cardinality({r \in held : r.src = id}) <= delivered[id]
    /\ \A w \in Workers :
          /\ pc[w] = "send" <=> reader[w] # NoReader
          /\ reader[w] # NoReader => reader[w].src = item[w].id
          /\ pc[w] \in {"recv", "done"} => item[w] = NoItem

\* C12 witness: the pipeline has come to rest with one descriptor logged as
\* failed and another received by a consumer.
C12_Witness ==
    /\ Quiescent
    /\ \E i, j \in SourceIds :
          /\ i \in logged /\ delivered[i] = 0
          /\ j \notin logged /\ delivered[j] = 1

\* Every descriptor popped and either published to a consumer or dropped
\* with a log line, every worker out of its loop, the output channel
\* empty with all its senders gone.
Terminated ==
    /\ Quiescent
    /\ \A id \in SourceIds :
          popped[id] = 1 /\ (delivered[id] = 1 \/ id \in logged)

\* C13: if every fetch returns and the consumers keep draining, the
\* sequence of prefetch_iter comes to its end and stays there: every
\* descriptor is popped and published or dropped, every worker leaves its
\* loop, the output channel closes; no worker stays blocked on either
\* channel.
C13_Terminates == <>[]Terminated

\* C13 witness: the pipeline has terminated after both a published and a
\* dropped descriptor, over an output channel that has queued streams.
C13_Witness ==
    /\ Terminated
    /\ ChannelCapacity > 0
    /\ logged # {}
    /\ \E id \in SourceIds : delivered[id] = 1

\* Fetched streams no consumer has received yet: those queued in the
\* output channel and those held by workers blocked on the publish.
InFlight ==
    Len(recv_result) + Cardinality({w \in Workers : pc[w] = "send"})

Max(a, b) == IF a >= b THEN a ELSE b

\* C14 as stated: for every configuration (N threads, channel_capacity C)
\* the output channel has capacity C - N, and the fetched streams not yet
\* received by a consumer never number more than C.
C14_CapacityAsStated ==
    /\ ChannelCapacity = buffer_limit - threads
    /\ InFlight <= buffer_limit

\* C14 as amended: the output channel has capacity C - N where C >= N and
\* zero where C < N, and the fetched streams not yet received by a consumer
\* never number more than the larger of C and N.
C14_CapacityBound ==
    /\ ChannelCapacity = Max(buffer_limit - threads, 0)
    /\ Len(recv_result) <= ChannelCapacity
    /\ InFlight <= Max(buffer_limit, threads)

\* C14 witness: with more sources than C and C above N, the channel is
\* full and every worker is blocked on its publish: C streams in flight.
C14_Witness ==
    /\ buffer_limit > threads
    /\ NumSources > buffer_limit
    /\ Len(recv_result) = ChannelCapacity
    /\ InFlight = buffer_limit

RECURSIVE SumClaimed(_)
\* the sum of claimed_space over a set of PrefetchResults (a streaming
\* reader has none)
SumClaimed(rs) ==
    IF rs = {} THEN 0
    ELSE LET r == CHOOSE r \in rs : TRUE
         IN  r.claimed_space + SumClaimed(rs \ {r})

RECURSIVE SumRequested(_, _, _)
\* the sum of the grants held by the workers ws that are fetching
SumRequested(pcs, req, ws) ==
    IF ws = {} THEN 0
    ELSE LET w == CHOOSE w \in ws : TRUE
         IN  (IF pcs[w] = "fetch" THEN req[w] ELSE 0)
                + SumRequested(pcs, req, ws \ {w})

\* The counter, plus the grants of the fetches under way, plus the
\* claimed_space of the live BufferGuards (with a worker, queued, or with
\* a consumer).
Balance(space, pcs, req, rd, chan, hld) ==
    space + SumRequested(pcs, req, Workers)
          + SumClaimed({rd[w] : w \in Workers}
                          \cup {chan[i] : i \in 1..Len(chan)} \cup hld)

\* C17: for a descriptor whose budgeted fetch succeeds, the reconciliation
\* adds the grant less the buffer's capacity to the counter and the
\* BufferGuard records that capacity; the drop of a BufferGuard adds its
\* claimed_space back; and no step but a failed budgeted fetch changes the
\* sum of the counter, the grants under way and the claimed_space of the
\* live BufferGuards, so a descriptor fetched within the budget leaves
\* that sum as it found it.
C17_AccountingNetsToZero ==
    [][/\ \A w \in Workers :
             (pc[w] = "fetch" /\ pc'[w] = "send") =>
                /\ reader'[w].buffered
                /\ ESTIMATED_SPACE' =
                      ESTIMATED_SPACE
                         + (requested_size[w] - reader'[w].claimed_space)
       /\ \A r \in held \ held' :
             ESTIMATED_SPACE' = ESTIMATED_SPACE + r.claimed_space
       /\ (\A w \in Workers : ~(pc[w] = "fetch" /\ pc'[w] = "recv")) =>
             Balance(ESTIMATED_SPACE', pc', requested_size', reader',
                     recv_result', held')
                = Balance(ESTIMATED_SPACE, pc, requested_size, reader,
                          recv_result, held)]_vars

\* C17 witness: a consumer holds a BufferGuard whose capacity came out far
\* above its claim; no fetch has failed, and the counter and the guard's
\* claimed_space add up to the whole budget.
C17_Witness ==
    /\ logged = {}
    /\ \A w \in Workers : pc[w] \in {"recv", "done"}
    /\ recv_result = <<>>
    /\ \E r \in held :
          /\ held = {r}
          /\ r.buffered
          /\ r.claimed_space = PREFETCH_BUFFER_SPACE - 2
          /\ ESTIMATED_SPACE + r.claimed_space = PREFETCH_BUFFER_SPACE

\* C18: a worker never waits for budget.  A worker about to claim can
\* always take its step, whatever the counter holds; a refused claim sends
\* it down the streaming path at once; and on that path it publishes the
\* unbuffered stream, or logs and goes back to the input queue, without
\* touching the counter.
C18_NeverWaitsForBudget ==
    /\ [](\A w \in Workers :
             pc[w] = "claim" =>
                ENABLED (WorkerClaim(w) /\ UNCHANGED <<iterVars, pureVars>>))
    /\ [][\A w \in Workers :
             /\ (pc[w] = "claim" /\ pc'[w] # "claim"
                                 /\ requested_size'[w] = 0) =>
                   /\ pc'[w] = "stream"
                   /\ ESTIMATED_SPACE' = ESTIMATED_SPACE
             /\ (pc[w] = "stream" /\ pc'[w] # "stream") =>
                   /\ ESTIMATED_SPACE' = ESTIMATED_SPACE
                   /\ \/ pc'[w] = "send" /\ reader'[w] # NoReader
                                         /\ ~reader'[w].buffered
                      \/ pc'[w] = "recv" /\ item[w].id \in logged']_vars

\* C18 witness: a worker refused for a size the budget no longer covers
\* has opened an unbuffered stream and is publishing it, the counter still
\* short of its claim.
C18_Witness ==
    \E w \in Workers :
       /\ pc[w] = "send"
       /\ ~reader[w].buffered
       /\ item[w].rough_size > 0
       /\ item[w].rough_size <= MAX_PREFETCH_BUFFER_SIZE
       /\ ESTIMATED_SPACE < 2 * item[w].rough_size

(***************************************************************************)
(* Properties of MsgIter (iter.rs)                                         *)
(***************************************************************************)
\* Only valid records, ending exactly at a record boundary.
WellFormedClean ==
    /\ \A i \in 1..Len(stream.records) : stream.records[i] = "ok"
    /\ stream.rest = "none"
    /\ stream.at_end = "eof"

\* Only valid records, then the stream ends in the middle of a record.
TruncatedMidRecord ==
    /\ \A i \in 1..Len(stream.records) : stream.records[i] = "ok"
    /\ stream.rest # "none"
    /\ stream.at_end = "eof"

\* The decoder errors the claims call content-validation,
\* unsupported-variant and filter-rejection errors (TruncatedMsg, raised on
\* the content of a delimited record, is counted with them).
ContentErrors == {"ParseError", "TruncatedMsg", "Unsupported", "FilterError"}

\* The decoder errors the claims call structural truncation and I/O-layer
\* failures.
TruncationAndIoErrors ==
    {"IoError", "IoNotEnoughBytes", "EofError", "OneIoError", "EofExpected"}

\* A valid record, a delimited record with invalid content, a valid record.
ValidInvalidValid ==
    /\ Len(stream.records) >= 3
    /\ stream.records[1] = "ok"
    /\ stream.records[2] \in ContentErrors
    /\ stream.records[3] = "ok"

\* C4: once a call has observed a fatal error or a clean end-of-stream,
\* is_finished is set (and stays set), and every later call returns None
\* without reading the underlying stream.
C4_FinishedSticky ==
    /\ end_seen => is_finished
    /\ last.after_end => (last.item = NoneItem /\ last.reads = <<>>)

\* C5: on a stream truncated mid-record after k valid records, next()
\* yields the k records in order, then one fatal Err, then None, and no
\* call after the fatal item reads the stream.
C5_TruncatedStream ==
    TruncatedMidRecord =>
       LET k == Len(stream.records)
       IN  /\ Len(out) <= k + 1
           /\ \A i \in 1..Len(out) :
                 IF i <= k THEN out[i] = OkItem(i) ELSE out[i].tag = "Err"
           /\ Len(out) = k + 1 => is_finished
           /\ last.item = NoneItem =>
                 (Len(out) = k + 1 /\ last.reads = <<>>)

\* C5 witness: a truncated stream with at least one record has yielded its
\* records and the fatal item, and a further call has returned None.
C5_Witness ==
    /\ TruncatedMidRecord
    /\ Len(stream.records) >= 1
    /\ Len(out) = Len(stream.records) + 1
    /\ last.item = NoneItem

\* C6: on k valid records ending at a record boundary, next() yields the k
\* records in order and then None, and never an Err.
C6_WellFormedStream ==
    WellFormedClean =>
       LET k == Len(stream.records)
       IN  /\ Len(out) <= k
           /\ \A i \in 1..Len(out) : out[i] = OkItem(i)
           /\ last.item = NoneItem => Len(out) = k
           /\ last.item.tag \in {"NoCall", "Ok", "None"}

\* C6 witness: a clean stream of at least two records has yielded them all
\* and a further call has returned None.
C6_Witness ==
    /\ WellFormedClean
    /\ Len(stream.records) >= 2
    /\ Len(out) = Len(stream.records)
    /\ last.item = NoneItem

\* C7: on valid, invalid-content, valid, next() yields Ok, Err, Ok in that
\* order; is_finished stays false across the error and each call resumes
\* at the reader's cursor.
C7_NonFatalContinues ==
    ValidInvalidValid =>
       /\ Len(out) >= 1 => out[1] = OkItem(1)
       /\ Len(out) >= 2 =>
             out[2] = ErrItem(ParserError(stream.records[2], ""))
       /\ Len(out) >= 3 => out[3] = OkItem(3)
       /\ cursor <= 4 => (~is_finished /\ Len(out) = cursor - 1)

\* C7 witness: the record after the invalid one has been yielded.
C7_Witness ==
    /\ ValidInvalidValid
    /\ Len(out) >= 3
    /\ out[2].tag = "Err"
    /\ out[3] = OkItem(3)

\* C8: a yielded error ends the sequence (is fatal) if it is a structural
\* truncation or an I/O-layer failure, and does not if it is a
\* content-validation, unsupported-variant or filter-rejection error.
C8_ClassificationTable ==
    last.item.tag = "Err" =>
       /\ last.item.variant \in TruncationAndIoErrors => is_finished
       /\ last.item.variant \in ContentErrors => ~is_finished

\* C9: repeated calls to next() reach None.
C9_SequenceFinite == <>(last.item = NoneItem)

\* C19: in each call of next() that reads, started_with_eof is true exactly
\* if the first read of that call returned Ok(0), a zero-length opening
\* read included; a read that returns Ok(0) or fails later in the call
\* does not set it; a call that makes no read leaves it false; and a call
\* whose first read returned data never turns a failed decode into None.
C19_ProbeFirstReadOnly ==
    /\ last.reads = <<>> => ~last.started_with_eof
    /\ last.reads # <<>> =>
          /\ last.started_with_eof <=> (last.reads[1] = "zero")
          /\ last.reads[1] = "data" => last.item.tag \in {"Ok", "Err"}

\* C19 witness: a decoder that opens with a zero-length read has read data
\* after it and failed, and the call came back with started_with_eof set
\* and None.
C19_Witness ==
    /\ probing
    /\ Len(last.reads) >= 2
    /\ last.reads[1] = "zero"
    /\ last.reads[2] = "data"
    /\ last.started_with_eof
    /\ last.item = NoneItem

(***************************************************************************)
(* Properties of AttributeCounts (main.rs)                                 *)
(***************************************************************************)
\* C15: reduce is commutative and associative on both maps: for all
\* accumulators a, b, c, reduce(a, b) = reduce(b, a) and
\* reduce(reduce(a, b), c) = reduce(a, reduce(b, c)).
C15_ReduceCommutesAssociates ==
    output # <<>> =>
       /\ output[1].ab = output[1].ba
       /\ output[1].ab_c = output[1].a_bc

\* C15 witness: reduce has merged three accumulators that differ, two of
\* them sharing an attribute set with different counts, the third holding
\* a set the first lacks.
C15_Witness ==
    /\ output # <<>>
    /\ \E k \in DOMAIN input[1].map \cap DOMAIN input[2].map :
          input[1].map[k] # input[2].map[k]
    /\ DOMAIN input[3].map \ DOMAIN input[1].map # {}
    /\ input[1].totals # input[2].totals

\* C16: when the run has come to its end, the merged per-attribute totals
\* are the sum over exactly the records that were decoded: nothing for a
\* source whose fetch failed, the records ahead of the fault for a source
\* with a fatal fault, every valid record for a source with rejected
\* records among them.
C16_TotalsOverDecoded ==
    Quiescent => \A a \in AttrTypes : merged.totals[a] = expected[a]

\* C16 witness: the run has ended after one failed fetch, a source of two
\* valid records and a source with a fatal fault after one record; the
\* totals are those of the three records.
C16_Witness ==
    /\ Quiescent
    /\ Cardinality(logged) = 1
    /\ \A id \in SourceIds \ logged : delivered[id] = 1
    /\ merged.totals =
          [a \in AttrTypes |->
              ExpectedTotals(Clean2)[a] + ExpectedTotals(FatalAfter1)[a]]
    /\ merged.map =
          reduce(count_records(AttributeCounts_default, <<1, 2>>),
                 count_records(AttributeCounts_default, <<1>>)).map

(***************************************************************************)
(* Properties of the decompression router (prefetch.rs)                    *)
(***************************************************************************)
\* The decoder the suffix table gives a url by its last segment.
DecoderBySuffix(segs) ==
    IF segs = <<>> THEN "none"
    ELSE LET last_seg == segs[Len(segs)]
         IN  CASE last_seg \in {<<".", "g", "z">>,
                                <<".", "g", "z", "i", "p">>} -> "GzDecoder"
               [] last_seg \in {<<".", "b", "z", "2">>,
                                <<".", "b", "z">>} -> "BzDecoder"
               [] last_seg \in {<<".", "l", "z", "4">>,
                                <<".", "l", "z">>} -> "Lz4Decoder"
               [] OTHER -> "none"

\* C20: the router returns a reader for every url and every buffer: the
\* gzip decoder for .gz and .gzip, the bzip decoder for .bz2 and .bz, the
\* LZ4 decoder for .lz4 and .lz, the buffer itself for anything else; the
\* reader holds the fetched buffer and goes out with the url, so the
\* fetched buffer is published.
C20_RouterTotal ==
    /\ output = <<>> =>
          ENABLED (RouterCall /\ UNCHANGED <<prefetchVars, iterVars>>)
    /\ output # <<>> =>
          /\ output[1].url = Concat(input[1])
          /\ output[1].reader.inner = input[2]
          /\ output[1].reader.decoder = DecoderBySuffix(input[1])

\* C20 witness: a url that ends in a suffix the router does not know, after
\* one it knows, went through with its buffer as it was.
C20_Witness ==
    /\ output # <<>>
    /\ Len(input[1]) = 2
    /\ input[1][1] = <<".", "g", "z">>
    /\ input[1][2] = <<".", "t", "x", "t">>
    /\ output[1].reader = [decoder |-> "none", inner |-> input[2]]
    /\ input[2].content = FatalMid

=============================================================================
